---- MODULE Spec2Model ----
(***************************************************************************)
(* duck::SmallUniquePtr<T, StorageSize> (src/duck/small_unique_ptr.h): an  *)
(* owning pointer with an inline buffer.  Memory is modelled by addresses: *)
(* every box slot has its inline_storage_ at a fixed address, the heap is  *)
(* a set of blocks handed out by ::operator new and taken back by          *)
(* ::operator delete.  Every public operation of the class is one action,  *)
(* composed of the private helpers it calls, each a state transformer on a *)
(* record s of the machine state.                                          *)
(***************************************************************************)
EXTENDS Integers, Sequences, FiniteSets, TLC

\* Bound of the model: the number of blocks of the heap.
MaxBlocks == 1

Blocks == 1 .. MaxBlocks

\* The integers the tests construct SmallDerived payloads with.
Vals == {5, 6}

\* The box variables of the program: SmallUniquePtr<Base, 16> p and
\* SmallUniquePtr<Base, 32> q.
Boxes == {"p", "q"}

nullptr == 0

\* Payload types: the two of the test hierarchy, and one over-aligned type
\* (struct alignas(32) ... : Base) that fits the largest buffer by size only.
Types == {"SmallDerived", "BigDerived", "OverAligned"}

sizeof(U) ==
  CASE U = "SmallDerived" -> 16
    [] U = "BigDerived" -> 24
    [] U = "OverAligned" -> 32

alignof(U) ==
  CASE U = "SmallDerived" -> 8
    [] U = "BigDerived" -> 8
    [] U = "OverAligned" -> 32

\* The StorageSize template argument of each box: sizeof(SmallDerived) for p,
\* a buffer large enough for BigDerived for q.
storage_size(b) == IF b = "p" THEN 16 ELSE 32

\* The constructor arguments of each payload type; BigDerived and OverAligned
\* are default-constructed.
Args(U) == IF U = "SmallDerived" THEN Vals ELSE {0}

\* alignof(std::aligned_storage<N>::type) with the default alignment: the
\* strictest fundamental alignment of an object no larger than N.
storage_align(N) == IF N >= 16 THEN 16 ELSE 8

\* Address of the inline_storage_ member of the box in slot b, and of heap block k.
InlineStorage(b) == IF b = "p" THEN 64 ELSE 128
HeapAddr(k) == 1024 + 64 * k
IsHeapAddr(p) == \E k \in Blocks : p = HeapAddr(k)
BlockOf(p) == CHOOSE k \in Blocks : p = HeapAddr(k)
Addrs == {InlineStorage(b) : b \in Boxes} \cup {HeapAddr(k) : k \in Blocks}

NoObj == [type |-> "none", val |-> 0]
FreeBlock == [size |-> 0, st |-> "free"]

VARIABLES
  alive,   \* alive[b]: the SmallUniquePtr object b exists (constructed, not destroyed)
  data_,   \* data_[b]: its data_ member
  obj,     \* obj[a]: the payload object living in the storage at address a
  blk,     \* blk[k]: heap block k, free or live with its allocated size
  raw,     \* raw owning pointers held by the caller
  ub,      \* undefined behaviour happened (double free, use of a dead object)
  last     \* the last operation: its kind, the box it was called on, how the
           \* payload it was about (the source's, for a move) was stored before,
           \* and how the payload of the box it was called on was stored before

vars == <<alive, data_, obj, blk, raw, ub, last>>

\* The other components of the library, each with the state of its own objects.
VARIABLES
  opt,     \* the Optional<int> objects: which exist, their has_value_ and
           \* storage_ members, whether an assert has failed, the last operation
  dec,     \* the DecimalInteger<Int> object: its type, its i_ member, what
           \* size () returned and what write () emitted
  flt,     \* the filtered_range: its inner container and predicates, an
           \* iterator on it, the elements a traversal has yielded so far
  rng      \* the integer range: the arguments it was built from, its begin_
           \* and end_ iterators, an iterator on it, the integers yielded

\* The components are independent: a component whose operations are not under
\* study stays in the state it has before any of its objects is created.
\* The content of a storage_ in which no int lives.
NoT == -1
\* The Optional<int> variables of the program.
Opts == {"a", "b"}
OptIdle ==
  [alive |-> [x \in Opts |-> FALSE],
   has_value_ |-> [x \in Opts |-> FALSE],
   storage_ |-> [x \in Opts |-> NoT],
   failed |-> FALSE,
   last |-> [op |-> "init", x |-> "", src |-> NoT]]

\* No DecimalInteger exists; size () and write () have not been called.
NoSize == -1
DecIdle ==
  [alive |-> FALSE, signed |-> FALSE, i_ |-> 0,
   size |-> NoSize, wrote |-> FALSE, out |-> <<>>, overrun |-> FALSE]

\* No filtered_range exists. it_ = 0 stands for no iterator.
NoIt == 0
FltIdle ==
  [alive |-> FALSE, inner |-> <<>>, preds |-> <<>>, it_ |-> NoIt,
   iter |-> FALSE, out |-> <<>>,
   last |-> [op |-> "init", from |-> NoIt, ret |-> 0]]

\* No integer range exists.
RngIdle ==
  [alive |-> FALSE, from |-> 0, to |-> 0, begin_ |-> 0, end_ |-> 0,
   iter |-> FALSE, it_ |-> 0, out |-> <<>>, ub |-> FALSE,
   last |-> [op |-> "init", ret |-> 0]]

others == <<opt, dec, flt, rng>>
OthersIdle == opt = OptIdle /\ dec = DecIdle /\ flt = FltIdle /\ rng = RngIdle

\* The machine state an operation starts from.
M == [data_ |-> data_, obj |-> obj, blk |-> blk, ub |-> ub,
      ev |-> <<>>, ret |-> nullptr, oom |-> FALSE, threw |-> FALSE]

Ev(e, a, x) == [e |-> e, a |-> a, x |-> x]
Log(s, e, a, x) == [s EXCEPT !.ev = Append(@, Ev(e, a, x))]

----------------------------------------------------------------------------
\* Memory primitives.

\* ::operator new (size): the lowest free block; oom when the heap is exhausted.
operator_new(s, size) ==
  IF \A k \in Blocks : s.blk[k].st # "free"
  THEN [s EXCEPT !.oom = TRUE]
  ELSE LET k == CHOOSE k \in Blocks :
                  /\ s.blk[k].st = "free"
                  /\ \A j \in Blocks : j < k => s.blk[j].st # "free"
       IN [Log(s, "alloc", HeapAddr(k), size) EXCEPT
             !.blk[k] = [size |-> size, st |-> "live"],
             !.ret = HeapAddr(k)]

\* ::operator delete (p): nothing for nullptr; freeing what is not a live
\* heap block is undefined.
operator_delete(s, p) ==
  IF p = nullptr THEN s
  ELSE IF IsHeapAddr(p) /\ s.blk[BlockOf(p)].st = "live"
  THEN [Log(s, "free", p, 0) EXCEPT !.blk[BlockOf(p)] = FreeBlock]
  ELSE [Log(s, "free", p, 0) EXCEPT !.ub = TRUE]

\* Mutant of placement_new: the constructor ignores its arguments.
placement_new_drops_args(s, p, U, v) ==
  [Log(s, "ctor", p, 0) EXCEPT
     !.obj[p] = [type |-> U, val |-> 0],
     !.ub = @ \/ s.obj[p] # NoObj]

\* new (p) U (v): a payload object starts to live in the storage at p.
placement_new(s, p, U, v) ==
  [Log(s, "ctor", p, 0) EXCEPT
     !.obj[p] = [type |-> U, val |-> v],
     !.ub = @ \/ s.obj[p] # NoObj]

\* p->~type (): the (virtual) destructor of the payload at p.
destructor(s, p) ==
  [Log(s, "dtor", p, 0) EXCEPT
     !.obj[p] = NoObj,
     !.ub = @ \/ s.obj[p] = NoObj]

\* delete p
delete_expr(s, p) == operator_delete(destructor(s, p), p)

----------------------------------------------------------------------------
\* SmallUniquePtr: observers.

get(s, b) == s.data_[b]

\* Mutant of is_inline: only the first byte of the buffer counts.
is_inline_start_only(s, b) == s.data_[b] = InlineStorage(b)

is_inline(s, b) ==
  /\ InlineStorage(b) <= s.data_[b]
  /\ s.data_[b] < InlineStorage(b) + storage_size(b)

is_allocated(s, b) == ~ is_inline(s, b)

\* How box b holds its payload: the observers operator bool, is_inline, is_allocated.
Mode(s, b) ==
  IF s.data_[b] = nullptr THEN "empty"
  ELSE IF is_inline(s, b) THEN "inline" ELSE "allocated"

\* get()->f ()
f(s, b) == IF s.obj[s.data_[b]].type = "BigDerived" THEN -1 ELSE s.obj[s.data_[b]].val

----------------------------------------------------------------------------
\* SmallUniquePtr: storage selection.

\* Mutants of BuildInline: the alignment test forgotten; the size test made strict.
BuildInline_size_only(b, Size, Align) == Size <= storage_size(b)

BuildInline_strict(b, Size, Align) ==
  Size < storage_size(b) /\ Align <= storage_align(storage_size(b))

BuildInline(b, Size, Align) ==
  Size <= storage_size(b) /\ Align <= storage_align(storage_size(b))

BuildTypeInline(b, U) == BuildInline(b, sizeof(U), alignof(U))

\* Mutant of create_storage_helper: the inline buffer, whatever the size.
create_storage_helper_always_inline(s, b, size, use_inline) ==
  [s EXCEPT !.ret = InlineStorage(b)]

create_storage_helper(s, b, size, use_inline) ==
  IF use_inline THEN [s EXCEPT !.ret = InlineStorage(b)] ELSE operator_new(s, size)

create_storage_for_build(s, b, U) ==
  create_storage_helper(s, b, sizeof(U), BuildTypeInline(b, U))

\* Mutant of create_storage_for_move: storage for the payload's own type.
create_storage_for_move_payload(s, b, o) ==
  create_storage_for_build(s, b, s.obj[s.data_[o]].type)

create_storage_for_move(s, b, o) ==
  create_storage_helper(s, b, storage_size(o),
                        BuildInline(b, storage_size(o), storage_align(storage_size(o))))

destroy_storage_helper(s, storage, use_inline) ==
  IF use_inline THEN s ELSE operator_delete(s, storage)

destroy_storage(s, b, U, storage) ==
  destroy_storage_helper(s, storage, BuildTypeInline(b, U))

----------------------------------------------------------------------------
\* SmallUniquePtr: modifiers.

\* Mutant of reset: the payload is destroyed but its heap block not given back.
reset_no_delete(s, b) ==
  IF s.data_[b] # nullptr
  THEN [destructor(s, s.data_[b]) EXCEPT !.data_[b] = nullptr]
  ELSE s

\* Mutant of reset: the payload is destroyed but data_ keeps its address.
reset_keeps_pointer(s, b) ==
  IF s.data_[b] # nullptr
  THEN IF is_allocated(s, b)
       THEN delete_expr(s, s.data_[b])
       ELSE destructor(s, s.data_[b])
  ELSE s

\* Mutant of reset: delete data_, wherever the payload is stored.
reset_always_delete(s, b) ==
  IF s.data_[b] # nullptr
  THEN [delete_expr(s, s.data_[b]) EXCEPT !.data_[b] = nullptr]
  ELSE s

reset(s, b) ==
  IF s.data_[b] # nullptr
  THEN LET s1 == IF is_allocated(s, b)
                 THEN delete_expr(s, s.data_[b])
                 ELSE destructor(s, s.data_[b])
       IN [s1 EXCEPT !.data_[b] = nullptr]
  ELSE s

\* Mutant of reset (pointer): the current payload is not reset first.
reset_pointer_no_reset(s, b, p) == [s EXCEPT !.data_[b] = p]

reset_pointer(s, b, p) == [reset(s, b) EXCEPT !.data_[b] = p]

\* Mutant of the guard: it never destroys what it holds.
DestroyPointerAtEndOfScope_never(s, b, U, p_) == s

\* ~DestroyPointerAtEndOfScope: the guard's destroyer runs on what it still holds.
DestroyPointerAtEndOfScope(s, b, U, p_) == destroy_storage(s, b, U, p_)

\* Mutant of build: data_ is committed before the constructor has returned.
build_commits_first(s, b, U, v, ok) ==
  LET s1 == create_storage_for_build(s, b, U)
      tmp == s1.ret
      s2 == [s1 EXCEPT !.data_[b] = tmp]
  IN IF s1.oom THEN s1
     ELSE IF ok
     THEN DestroyPointerAtEndOfScope(placement_new(s2, tmp, U, v), b, U, nullptr)
     ELSE DestroyPointerAtEndOfScope(
            [Log(s2, "throw", tmp, 0) EXCEPT !.threw = TRUE], b, U, tmp)

\* Mutant of build: the payload is constructed in a temporary heap block and
\* then relocated into its storage.
build_via_temporary(s, b, U, v, ok) ==
  LET s0 == operator_new(s, sizeof(U))
      t0 == s0.ret
  IN IF s0.oom THEN s0
     ELSE IF ~ ok
     THEN operator_delete([Log(s0, "throw", t0, 0) EXCEPT !.threw = TRUE], t0)
     ELSE LET s1 == create_storage_for_build(placement_new(s0, t0, U, v), b, U)
              tmp == s1.ret
          IN IF s1.oom THEN s1
             ELSE [delete_expr([Log(s1, "move", t0, tmp) EXCEPT
                                  !.obj[tmp] = s1.obj[t0]], t0)
                     EXCEPT !.data_[b] = tmp]

\* build<U> (v); ok says whether U's constructor returns or throws.
build(s, b, U, v, ok) ==
  LET s1 == create_storage_for_build(s, b, U)
      tmp == s1.ret
  IN IF s1.oom THEN s1
     ELSE IF ok
     THEN DestroyPointerAtEndOfScope(
            [placement_new(s1, tmp, U, v) EXCEPT !.data_[b] = tmp], b, U, nullptr)
     ELSE DestroyPointerAtEndOfScope(
            [Log(s1, "throw", tmp, 0) EXCEPT !.threw = TRUE], b, U, tmp)

\* Mutant of emplace: the current payload is not reset first.
emplace_no_reset(s, b, U, v, ok) == build(s, b, U, v, ok)

emplace(s, b, U, v, ok) == build(reset(s, b), b, U, v, ok)

\* Mutant of release_pointer_unsafe: the source keeps its pointer.
release_pointer_unsafe_keeps(s, b) == [s EXCEPT !.ret = s.data_[b]]

release_pointer_unsafe(s, b) == [s EXCEPT !.ret = s.data_[b], !.data_[b] = nullptr]

\* Mutant of small_unique_ptr_move: the copy is default-constructed.
small_unique_ptr_move_loses_value(s, from, storage) ==
  [Log(s, "move", from, storage) EXCEPT
     !.obj[storage] = [type |-> s.obj[from].type, val |-> 0],
     !.ub = @ \/ s.obj[from] = NoObj \/ s.obj[storage] # NoObj]

\* data_->small_unique_ptr_move (storage): move construction of *this at storage.
small_unique_ptr_move(s, from, storage) ==
  [Log(s, "move", from, storage) EXCEPT
     !.obj[storage] = s.obj[from],
     !.ub = @ \/ s.obj[from] = NoObj \/ s.obj[storage] # NoObj]

\* Mutant of move_to: the original is destroyed before the copy is made.
move_to_destroys_first(s, b, storage) ==
  LET s1 == destructor(s, s.data_[b])
      s2 == small_unique_ptr_move(s1, s.data_[b], storage)
  IN [s2 EXCEPT !.data_[b] = nullptr]

move_to(s, b, storage) ==
  LET s1 == small_unique_ptr_move(s, s.data_[b], storage)
      s2 == destructor(s1, s.data_[b])
  IN [s2 EXCEPT !.data_[b] = nullptr]

\* Mutants of release: the pointer held is returned, inline or not; the
\* payload is relocated, heap-stored or not.
release_returns_inline(s, b) ==
  IF s.data_[b] # nullptr
  THEN release_pointer_unsafe(s, b)
  ELSE [s EXCEPT !.ret = nullptr]

release_always_relocates(s, b) ==
  IF s.data_[b] # nullptr
  THEN LET s1 == operator_new(s, storage_size(b))
           allocated_storage == s1.ret
       IN IF s1.oom THEN s1
          ELSE [move_to(s1, b, allocated_storage) EXCEPT !.ret = allocated_storage]
  ELSE [s EXCEPT !.ret = nullptr]

release(s, b) ==
  IF s.data_[b] # nullptr
  THEN IF is_allocated(s, b)
       THEN release_pointer_unsafe(s, b)
       ELSE LET s1 == operator_new(s, storage_size(b))
                allocated_storage == s1.ret
            IN IF s1.oom THEN s1
               ELSE [move_to(s1, b, allocated_storage) EXCEPT !.ret = allocated_storage]
  ELSE [s EXCEPT !.ret = nullptr]

\* Mutant of move_from_other: every payload is relocated, heap-stored or not.
move_from_other_always_relocates(s, b, o) ==
  IF s.data_[o] # nullptr
  THEN LET s1 == create_storage_for_move(s, b, o)
           tmp == s1.ret
       IN IF s1.oom THEN s1
          ELSE [move_to(s1, o, tmp) EXCEPT !.data_[b] = tmp]
  ELSE s

\* Mutant of move_from_other: a heap-stored payload that fits the destination's
\* buffer is relocated into it and its block freed.
move_from_other_inline_if_fits(s, b, o) ==
  IF s.data_[o] # nullptr
  THEN IF is_allocated(s, o)
       THEN IF BuildTypeInline(b, s.obj[s.data_[o]].type)
            THEN LET a == s.data_[o]
                     s1 == small_unique_ptr_move(s, a, InlineStorage(b))
                     s2 == delete_expr(s1, a)
                 IN [s2 EXCEPT !.data_[b] = InlineStorage(b), !.data_[o] = nullptr]
            ELSE LET s1 == release_pointer_unsafe(s, o)
                 IN [s1 EXCEPT !.data_[b] = s1.ret]
       ELSE LET s1 == create_storage_for_move(s, b, o)
                tmp == s1.ret
            IN IF s1.oom THEN s1
               ELSE [move_to(s1, o, tmp) EXCEPT !.data_[b] = tmp]
  ELSE s

move_from_other(s, b, o) ==
  IF s.data_[o] # nullptr
  THEN IF is_allocated(s, o)
       THEN LET s1 == release_pointer_unsafe(s, o)
            IN [s1 EXCEPT !.data_[b] = s1.ret]
       ELSE LET s1 == create_storage_for_move(s, b, o)
                tmp == s1.ret
            IN IF s1.oom THEN s1
               ELSE [move_to(s1, o, tmp) EXCEPT !.data_[b] = tmp]
  ELSE s

\* Mutants of move assignment: no reset of the destination; no reset of the
\* destination when the source is empty.
move_assign_no_reset(s, b, o) == move_from_other(s, b, o)

move_assign_keeps_on_empty(s, b, o) ==
  IF s.data_[o] = nullptr THEN s ELSE move_from_other(reset(s, b), b, o)

move_assign(s, b, o) == move_from_other(reset(s, b), b, o)

\* Mutant of make_small_unique: the payload comes from new U (v) and is adopted.
make_small_unique_via_new(s, b, U, v, ok) ==
  LET s1 == operator_new(s, sizeof(U))
  IN IF s1.oom THEN s1
     ELSE IF ok
     THEN [placement_new(s1, s1.ret, U, v) EXCEPT !.data_[b] = s1.ret]
     ELSE operator_delete([Log(s1, "throw", s1.ret, 0) EXCEPT !.threw = TRUE], s1.ret)

\* make_small_unique<U> (v), with StorageSize = sizeof (U): the returned box is
\* the one built in place (the returned prvalue is not copied).
make_small_unique(s, b, U, v, ok) == build(s, b, U, v, ok)

----------------------------------------------------------------------------
\* Actions: the public operations, and what the caller does with raw pointers.

\* The state after an operation that ended in r; an operation that would
\* exhaust the heap is not taken.
Commit(r, op, b, pre) ==
  /\ ~ r.oom
  /\ last' = [op |-> op, b |-> b, pre |-> pre,
               dst |-> IF b \in Boxes THEN Mode(M, b) ELSE "none"]
  /\ data_' = r.data_
  /\ obj' = r.obj
  /\ blk' = r.blk
  /\ ub' = r.ub
  /\ UNCHANGED others

\* The box b comes to exist: pointer data_{nullptr}.
Fresh(b) == [M EXCEPT !.data_[b] = nullptr]

BoxInit ==
  /\ alive = [b \in Boxes |-> FALSE]
  /\ data_ = [b \in Boxes |-> nullptr]
  /\ obj = [a \in Addrs |-> NoObj]
  /\ blk = [k \in Blocks |-> FreeBlock]
  /\ raw = {}
  /\ ub = FALSE
  /\ last = [op |-> "init", b |-> "", pre |-> "none", dst |-> "none"]

Init == BoxInit /\ OthersIdle

DefaultConstruct(b) ==
  /\ ~ alive[b]
  /\ alive' = [alive EXCEPT ![b] = TRUE]
  /\ Commit(Fresh(b), "construct", b, "empty")
  /\ UNCHANGED raw

ConstructInPlace(b, U, v, ok) ==
  /\ ~ alive[b]
  /\ LET r == build(Fresh(b), b, U, v, ok)
     IN /\ alive' = [alive EXCEPT ![b] = ~ r.threw]
        /\ Commit(r, IF r.threw THEN "build_failed" ELSE "build", b, "empty")
  /\ UNCHANGED raw

Destroy(b) ==
  /\ alive[b]
  /\ alive' = [alive EXCEPT ![b] = FALSE]
  /\ LET r == reset(M, b)
     IN Commit(r, "destroy", b, Mode(M, b))
  /\ UNCHANGED raw

Reset(b) ==
  /\ alive[b]
  /\ Commit(reset(M, b), "reset", b, Mode(M, b))
  /\ UNCHANGED <<alive, raw>>

Emplace(b, U, v, ok) ==
  /\ alive[b]
  /\ LET r == emplace(M, b, U, v, ok)
     IN Commit(r, IF r.threw THEN "build_failed" ELSE "build", b, Mode(M, b))
  /\ UNCHANGED <<alive, raw>>

\* SmallUniquePtr (pointer p): p is nullptr or a raw pointer the caller owns.
ConstructFromPointer(b, p) ==
  /\ ~ alive[b]
  /\ alive' = [alive EXCEPT ![b] = TRUE]
  /\ LET r == [Fresh(b) EXCEPT !.data_[b] = p]
     IN Commit(r, "adopt", b, "empty")
  /\ raw' = raw \ {p}

MoveConstruct(b, o) ==
  /\ ~ alive[b]
  /\ alive[o]
  /\ alive' = [alive EXCEPT ![b] = TRUE]
  /\ LET r == move_from_other(Fresh(b), b, o)
     IN Commit(r, "move", b, Mode(M, o))
  /\ UNCHANGED raw

\* operator= (SmallUniquePtr &&), b = std::move (b) included.
MoveAssign(b, o) ==
  /\ alive[b]
  /\ alive[o]
  /\ LET r == move_assign(M, b, o)
     IN Commit(r, IF b = o THEN "self_move" ELSE "move", b, Mode(M, o))
  /\ UNCHANGED <<alive, raw>>

\* operator= (std::nullptr_t)
AssignNullptr(b) ==
  /\ alive[b]
  /\ Commit(reset(M, b), "reset", b, Mode(M, b))
  /\ UNCHANGED <<alive, raw>>

\* operator= (pointer p)
AssignPointer(b, p) ==
  /\ alive[b]
  /\ LET r == reset_pointer(M, b, p)
     IN Commit(r, "adopt", b, Mode(M, b))
  /\ raw' = raw \ {p}
  /\ UNCHANGED alive

ResetPointer(b, p) ==
  /\ alive[b]
  /\ LET r == reset_pointer(M, b, p)
     IN Commit(r, "adopt", b, Mode(M, b))
  /\ raw' = raw \ {p}
  /\ UNCHANGED alive

\* reset (in_place_type_t<U>, v)
ResetInPlace(b, U, v, ok) ==
  /\ alive[b]
  /\ LET r == emplace(M, b, U, v, ok)
     IN Commit(r, IF r.threw THEN "build_failed" ELSE "build", b, Mode(M, b))
  /\ UNCHANGED <<alive, raw>>

Release(b) ==
  /\ alive[b]
  /\ LET r == release(M, b)
     IN /\ Commit(r, "release", b, Mode(M, b))
        /\ raw' = raw \cup ({r.ret} \ {nullptr})
  /\ UNCHANGED alive

\* auto b = make_small_unique<U> (v): b is a SmallUniquePtr<U, sizeof (U)>.
MakeSmallUnique(b, U, v, ok) ==
  /\ ~ alive[b]
  /\ storage_size(b) = sizeof(U)
  /\ LET r == make_small_unique(Fresh(b), b, U, v, ok)
     IN /\ alive' = [alive EXCEPT ![b] = ~ r.threw]
        /\ Commit(r, IF r.threw THEN "make_failed" ELSE "make", b, "empty")
  /\ UNCHANGED raw

\* The caller's own new U (v) and delete p.
CallerNew(U, v) ==
  /\ LET s1 == operator_new(M, sizeof(U))
         r == IF s1.oom THEN s1 ELSE placement_new(s1, s1.ret, U, v)
     IN /\ Commit(r, "caller_new", "", "none")
        /\ raw' = raw \cup {r.ret}
  /\ UNCHANGED alive

CallerDelete(p) ==
  /\ p \in raw
  /\ LET r == delete_expr(M, p)
     IN Commit(r, "caller_delete", "", "none")
  /\ raw' = raw \ {p}
  /\ UNCHANGED alive

Next ==
  \/ \E b \in Boxes : DefaultConstruct(b)
  \/ \E b \in Boxes, p \in raw \cup {nullptr} :
       ConstructFromPointer(b, p)
  \/ \E b \in Boxes, U \in Types : \E v \in Args(U), ok \in BOOLEAN :
       ConstructInPlace(b, U, v, ok)
  \/ \E b \in Boxes, o \in Boxes : MoveConstruct(b, o)
  \/ \E b \in Boxes : Destroy(b)
  \/ \E b \in Boxes, o \in Boxes : MoveAssign(b, o)
  \/ \E b \in Boxes : AssignNullptr(b)
  \/ \E b \in Boxes, p \in raw \cup {nullptr} : AssignPointer(b, p)
  \/ \E b \in Boxes : Release(b)
  \/ \E b \in Boxes : Reset(b)
  \/ \E b \in Boxes, p \in raw \cup {nullptr} : ResetPointer(b, p)
  \/ \E b \in Boxes, U \in Types : \E v \in Args(U), ok \in BOOLEAN : ResetInPlace(b, U, v, ok)
  \/ \E b \in Boxes, U \in Types : \E v \in Args(U), ok \in BOOLEAN : Emplace(b, U, v, ok)
  \/ \E b \in Boxes, U \in Types : \E v \in Args(U), ok \in BOOLEAN :
       MakeSmallUnique(b, U, v, ok)
  \/ \E U \in Types : \E v \in Args(U) : CallerNew(U, v)
  \/ \E p \in raw : CallerDelete(p)

Spec == Init /\ [][Next]_vars

----------------------------------------------------------------------------
\* Vocabulary of the properties.

Owns(s, b) == s.data_[b] # nullptr
LiveObj(s, a) == s.obj[a] # NoObj
LiveBlock(s, a) == IsHeapAddr(a) /\ s.blk[BlockOf(a)].st = "live"
InBuffer(b, a) == InlineStorage(b) <= a /\ a < InlineStorage(b) + storage_size(b)
Owners(s, a) == {b \in Boxes : s.data_[b] = a}
AllFree(s) == \A k \in Blocks : s.blk[k].st = "free"

\* Positions, in the event log of an operation, of the events e, and of those at address a.
Events(r, e) == {i \in 1 .. Len(r.ev) : r.ev[i].e = e}
EventsAt(r, e, a) == {i \in 1 .. Len(r.ev) : r.ev[i].e = e /\ r.ev[i].a = a}

\* The operations that construct a payload of type U in place in box b, seen
\* from the current state: the in-place constructor when b does not exist,
\* emplace / reset (in_place_type_t<U>) when it does.
InPlace(b, U, v, ok) ==
  IF alive[b] THEN emplace(M, b, U, v, ok) ELSE build(Fresh(b), b, U, v, ok)

\* The moves into box b from box o, seen from the current state: the move
\* constructor when b does not exist, move assignment when it does.
Move(b, o) ==
  IF alive[b] THEN move_assign(M, b, o) ELSE move_from_other(Fresh(b), b, o)

\* The adoptions of the raw pointer p by box b, seen from the current state:
\* the constructor from a pointer when b does not exist, operator= (pointer)
\* and reset (pointer) when it does.
Adopt(b, p) ==
  IF alive[b] THEN reset_pointer(M, b, p) ELSE [Fresh(b) EXCEPT !.data_[b] = p]

\* Whether the whole inline buffer of box o fits in the inline buffer of box b.
FitsIn(b, o) ==
  /\ storage_size(o) <= storage_size(b)
  /\ storage_align(storage_size(o)) <= storage_align(storage_size(b))

----------------------------------------------------------------------------
\* C1: in every reachable state each box is empty or holds exactly one live
\* payload, stored either in its own inline buffer or in a live heap block,
\* never both and never neither; is_inline() and is_allocated() tell which,
\* and is_inline() holds for every address inside [inline_storage_,
\* inline_storage_ + StorageSize), not only for its first byte.
C1_StorageInvariant ==
  \A b \in Boxes :
    /\ ~ alive[b] => ~ Owns(M, b)
    /\ ~ Owns(M, b) => ~ LiveObj(M, InlineStorage(b))
    /\ Owns(M, b) =>
         /\ LiveObj(M, data_[b])
         /\ InBuffer(b, data_[b]) # LiveBlock(M, data_[b])
         /\ is_inline(M, b) # is_allocated(M, b)
         /\ is_inline(M, b) <=> InBuffer(b, data_[b])
         /\ is_allocated(M, b) <=> LiveBlock(M, data_[b])
         /\ is_allocated(M, b) => ~ LiveObj(M, InlineStorage(b))
    /\ \A a \in (InlineStorage(b) - 1) .. (InlineStorage(b) + storage_size(b)) :
         is_inline([M EXCEPT !.data_[b] = a], b) <=>
           a \in InlineStorage(b) .. (InlineStorage(b) + storage_size(b) - 1)

\* One box holds its payload inline while the other holds a heap block.
C1_Witness ==
  \E b, o \in Boxes :
    /\ Owns(M, b) /\ is_inline(M, b)
    /\ Owns(M, o) /\ is_allocated(M, o)

\* C2: no live payload is owned by two boxes at once, and a pointer handed to
\* the caller (by release(), or not yet adopted) is owned by no box.
C2_ExclusiveOwnership ==
  /\ \A a \in Addrs : LiveObj(M, a) => Cardinality(Owners(M, a)) <= 1
  /\ \A b, o \in Boxes : (b # o /\ Owns(M, b)) => data_[b] # data_[o]
  /\ \A p \in raw : Owners(M, p) = {}
  /\ \A b \in Boxes :
       (alive[b] /\ Owns(M, b) /\ ~ release(M, b).oom) =>
         LET r == release(M, b)
         IN /\ r.ret # nullptr
            /\ LiveObj(r, r.ret)
            /\ Owners(r, r.ret) = {}

\* A move has just handed a heap-stored payload from one box to the other:
\* the destination owns it, the source that owned it is empty.
C2_Witness ==
  /\ last.op = "move" /\ last.pre = "allocated"
  /\ Owns(M, last.b) /\ is_allocated(M, last.b) /\ LiveObj(M, data_[last.b])
  /\ \E o \in Boxes \ {last.b} : alive[o] /\ ~ Owns(M, o)

\* C3: no heap block is freed twice and none leaks: nothing is ever freed
\* that is not a live block, every live block has exactly one owner (a box or
\* the caller), a failed construction gives its block back, and when no box
\* exists and the caller holds no pointer the whole heap is free.
C3_AllocFreePaired ==
  /\ ~ ub
  /\ \A k \in Blocks :
       blk[k].st = "live" =>
         Cardinality(Owners(M, HeapAddr(k))) + (IF HeapAddr(k) \in raw THEN 1 ELSE 0) = 1
  /\ \A b \in Boxes, U \in Types : \A v \in Args(U), ok \in BOOLEAN :
       LET r == InPlace(b, U, v, ok)
       IN ~ r.oom =>
            /\ ~ r.ub
            /\ \A k \in Blocks :
                 r.blk[k].st = "live" =>
                   Cardinality(Owners(r, HeapAddr(k)))
                     + (IF HeapAddr(k) \in raw THEN 1 ELSE 0) = 1
  /\ ((\A b \in Boxes : ~ alive[b]) /\ raw = {}) => AllFree(M)

\* The last box, holding the only heap block, is about to be destroyed: its
\* destruction frees the block, once, and leaves the heap free.
C3_Witness ==
  \E b \in Boxes :
    /\ alive[b] /\ Owns(M, b) /\ is_allocated(M, b)
    /\ \A o \in Boxes \ {b} : ~ alive[o]
    /\ raw = {}
    /\ LET r == reset(M, b)
       IN /\ Cardinality(Events(r, "free")) = 1
          /\ AllFree(r)

\* C4: construct-in-place of U in a box of capacity N stores the payload
\* inline if and only if sizeof(U) <= N and alignof(U) <= the alignment of the
\* inline buffer, and in a heap block otherwise; every U with sizeof(U) > N is
\* heap-stored.
C4_BuildStorageChoice ==
  \A b \in Boxes, U \in Types : \A v \in Args(U) :
    LET r == build(Fresh(b), b, U, v, TRUE)
    IN (~ alive[b] /\ ~ r.oom) =>
         /\ Owns(r, b)
         /\ is_inline(r, b) <=>
              (sizeof(U) <= storage_size(b) /\ alignof(U) <= storage_align(storage_size(b)))
         /\ is_inline(r, b) => (r.data_[b] = InlineStorage(b) /\ r.blk = blk)
         /\ is_allocated(r, b) =>
              /\ LiveBlock(r, r.data_[b])
              /\ ~ LiveBlock(M, r.data_[b])
              /\ r.blk[BlockOf(r.data_[b])].size = sizeof(U)
         /\ sizeof(U) > storage_size(b) => is_allocated(r, b)

\* A payload larger than the buffer has just been built in place and sits in
\* a heap block of its size, while the other box holds its payload inline.
C4_Witness ==
  /\ last.op = "build"
  /\ Owns(M, last.b) /\ is_allocated(M, last.b)
  /\ sizeof(obj[data_[last.b]].type) > storage_size(last.b)
  /\ blk[BlockOf(data_[last.b])].size = sizeof(obj[data_[last.b]].type)
  /\ \E o \in Boxes \ {last.b} : Owns(M, o) /\ is_inline(M, o)

\* C5 as stated: every U with sizeof(U) <= N that has been constructed in
\* place is inline.
C5_SizeAloneDecides ==
  (last.op = "build" /\ sizeof(obj[data_[last.b]].type) <= storage_size(last.b)) =>
    is_inline(M, last.b)

\* C5, amended: every U with sizeof(U) <= N whose alignment does not exceed
\* that of the inline buffer is constructed inline.
C5_SizeAndAlignDecide ==
  \A b \in Boxes, U \in Types : \A v \in Args(U) :
    LET r == build(Fresh(b), b, U, v, TRUE)
    IN (/\ ~ alive[b] /\ ~ r.oom
        /\ sizeof(U) <= storage_size(b)
        /\ alignof(U) <= storage_align(storage_size(b))) =>
         /\ is_inline(r, b)
         /\ r.obj[InlineStorage(b)] = [type |-> U, val |-> v]

\* A payload that fits exactly (sizeof(U) = N) has just been built in place
\* and is inline.
C5_Witness ==
  /\ last.op = "build"
  /\ Owns(M, last.b) /\ is_inline(M, last.b)
  /\ sizeof(obj[data_[last.b]].type) = storage_size(last.b)

\* C6: when U's constructor throws in construct-in-place or emplace, the
\* storage acquired for the attempt is given back before the exception leaves
\* (a heap block is freed, once, after the throw; an inline buffer needs no
\* free), the exception reaches the caller and the box holds no payload; when
\* the constructor returns, the guard frees nothing.
C6_FailedBuildReleasesStorage ==
  \A b \in Boxes, U \in Types : \A v \in Args(U) :
    LET r == InPlace(b, U, v, FALSE)
        g == InPlace(b, U, v, TRUE)
        n == Len(r.ev)
    IN ~ r.oom =>
         /\ r.threw /\ ~ r.ub
         /\ ~ Owns(r, b)
         /\ \A a \in Addrs : LiveBlock(r, a) => LiveBlock(M, a)
         /\ ~ Owns(M, b) => (r.obj = obj /\ r.blk = blk)
         /\ IF sizeof(U) <= storage_size(b) /\ alignof(U) <= storage_align(storage_size(b))
            THEN /\ n >= 1
                 /\ r.ev[n] = Ev("throw", InlineStorage(b), 0)
                 /\ Events(r, "alloc") = {}
            ELSE \E a \in Addrs :
                   /\ IsHeapAddr(a)
                   /\ n >= 3
                   /\ SubSeq(r.ev, n - 2, n)
                        = <<Ev("alloc", a, sizeof(U)), Ev("throw", a, 0), Ev("free", a, 0)>>
                   /\ Events(r, "alloc") = {n - 2}
                   /\ EventsAt(r, "free", a) \cap (n - 2 .. n) = {n}
         /\ ~ g.threw /\ ~ g.ub
         /\ \A i \in Events(g, "free") : \A j \in Events(g, "alloc") : i < j
         /\ Owns(g, b) /\ g.obj[g.data_[b]] = [type |-> U, val |-> v]
         /\ is_allocated(g, b) => LiveBlock(g, g.data_[b])

\* A construction that needed a heap block has just failed: the box is empty
\* and the heap is free again, the block having been allocated and freed.
C6_Witness ==
  /\ last.op = "build_failed"
  /\ ~ Owns(M, last.b)
  /\ AllFree(M)
  /\ \E U \in Types :
       /\ sizeof(U) > storage_size(last.b)
       /\ Len(InPlace(last.b, U, 0, FALSE).ev) = 3

\* C7: emplace / reset-in-place on a box in any state acts as reset() followed
\* by construct-in-place: the previous payload is destroyed exactly once, before
\* anything is allocated or constructed; the outcome is that of building in the
\* box once reset; and when the construction fails the box ends empty, with no
\* object left at the old address or in the failed storage.
C7_EmplaceIsResetThenBuild ==
  \A b \in Boxes, U \in Types : \A v \in Args(U), ok \in BOOLEAN :
    LET r == emplace(M, b, U, v, ok)
        c == build([reset(M, b) EXCEPT !.ev = <<>>], b, U, v, ok)
    IN (alive[b] /\ ~ r.oom) =>
         /\ ~ r.ub
         /\ Cardinality(Events(r, "dtor")) = (IF Owns(M, b) THEN 1 ELSE 0)
         /\ Owns(M, b) => EventsAt(r, "dtor", data_[b]) = {1}
         /\ Cardinality(Events(r, "free"))
              = (IF Owns(M, b) /\ is_allocated(M, b) THEN 1 ELSE 0)
                + (IF ~ ok /\ ~ (/\ sizeof(U) <= storage_size(b)
                                  /\ alignof(U) <= storage_align(storage_size(b)))
                   THEN 1 ELSE 0)
         /\ \A i \in Events(r, "dtor"),
               j \in Events(r, "alloc") \cup Events(r, "ctor") \cup Events(r, "throw") : i < j
         /\ r.data_ = c.data_ /\ r.obj = c.obj /\ r.blk = c.blk /\ r.threw = c.threw
         /\ ok => (Owns(r, b) /\ r.obj[r.data_[b]] = [type |-> U, val |-> v])
         /\ ~ ok =>
              /\ r.threw
              /\ get(r, b) = nullptr
              /\ \A a \in Addrs : LiveObj(r, a) => (LiveObj(M, a) /\ a # data_[b])

\* An emplace has just failed on a box that held a payload: the box is empty
\* and its inline buffer holds no object.
C7_Witness ==
  /\ last.op = "build_failed" /\ last.pre = "inline"
  /\ alive[last.b]
  /\ get(M, last.b) = nullptr
  /\ ~ LiveObj(M, InlineStorage(last.b))

\* C8 as stated: a failed construct-in-place, emplace or reset-in-place leaves
\* the box and the payload it held exactly as they were before the call.
C8_FullRollback ==
  \A b \in Boxes, U \in Types : \A v \in Args(U) :
    LET r == InPlace(b, U, v, FALSE)
    IN ~ r.oom => (r.data_ = data_ /\ r.obj = obj /\ r.blk = blk)

\* C8, amended: a failed construction rolls back the storage acquired for the
\* attempt and touches no other box or payload, and leaves a box that was empty
\* (or did not exist) exactly as it was; but emplace / reset-in-place on a
\* non-empty box has destroyed the payload the box held, and leaves it empty.
C8_RollbackOfTheAttemptOnly ==
  \A b \in Boxes, U \in Types : \A v \in Args(U) :
    LET r == InPlace(b, U, v, FALSE)
    IN ~ r.oom =>
         /\ r.threw /\ ~ r.ub
         /\ r.data_ = [data_ EXCEPT ![b] = nullptr]
         /\ r.obj = (IF Owns(M, b) THEN [obj EXCEPT ![data_[b]] = NoObj] ELSE obj)
         /\ r.blk = (IF Owns(M, b) /\ is_allocated(M, b)
                     THEN [blk EXCEPT ![BlockOf(data_[b])] = FreeBlock]
                     ELSE blk)
         /\ ~ Owns(M, b) => (r.data_ = data_ /\ r.obj = obj /\ r.blk = blk)

\* An emplace has just failed on a box that held a heap-stored payload: the
\* payload is gone, its block is free, and the other box still has its own.
C8_Witness ==
  /\ last.op = "build_failed" /\ last.pre = "allocated"
  /\ ~ Owns(M, last.b)
  /\ AllFree(M)
  /\ \E o \in Boxes \ {last.b} : Owns(M, o) /\ LiveObj(M, data_[o])

\* C9: moving a heap-stored payload between boxes of any capacities steals
\* the pointer: nothing is allocated, the payload is neither relocated nor
\* destroyed nor freed, the destination holds the very same address, the
\* source is empty, and the payload and its value are unchanged.
C9_HeapMoveStealsPointer ==
  \A b, o \in Boxes :
    (b # o /\ alive[o] /\ Owns(M, o) /\ is_allocated(M, o)) =>
      LET r == Move(b, o)
          a == data_[o]
      IN /\ ~ r.oom /\ ~ r.ub
         /\ Events(r, "alloc") = {}
         /\ Events(r, "move") = {}
         /\ Events(r, "ctor") = {}
         /\ EventsAt(r, "dtor", a) = {}
         /\ EventsAt(r, "free", a) = {}
         /\ get(r, b) = a
         /\ get(r, o) = nullptr
         /\ r.obj[a] = obj[a]
         /\ f(r, b) = f(M, o)
         /\ r.blk[BlockOf(a)] = blk[BlockOf(a)]
         /\ is_allocated(r, b)

\* The heap-stored BigDerived of the larger box has just been moved into the
\* smaller box: the smaller box holds the block, the larger one is empty.
C9_Witness ==
  /\ last.op = "move" /\ last.pre = "allocated"
  /\ last.b = "p"
  /\ Owns(M, "p") /\ is_allocated(M, "p") /\ f(M, "p") = -1
  /\ alive["q"] /\ ~ Owns(M, "q")

\* C10: when an inline-stored payload is moved from a box of capacity M into
\* a box of capacity N, it ends inline exactly when M <= N and the source
\* buffer's alignment does not exceed the destination's; otherwise it ends in a
\* heap block of M bytes allocated by the move, whatever the payload's own size.
C10_InlineMoveSizedBySource ==
  \A b, o \in Boxes :
    (b # o /\ alive[o] /\ Owns(M, o) /\ is_inline(M, o)) =>
      LET r == Move(b, o)
      IN ~ r.oom =>
           /\ ~ r.ub
           /\ Owns(r, b) /\ ~ Owns(r, o)
           /\ r.obj[r.data_[b]] = obj[data_[o]]
           /\ is_inline(r, b) <=>
                /\ storage_size(o) <= storage_size(b)
                /\ storage_align(storage_size(o)) <= storage_align(storage_size(b))
           /\ is_inline(r, b) => Events(r, "alloc") = {}
           /\ is_allocated(r, b) =>
                /\ LiveBlock(r, r.data_[b])
                /\ r.blk[BlockOf(r.data_[b])].size = storage_size(o)
                /\ \E i \in Events(r, "alloc") :
                     r.ev[i] = Ev("alloc", r.data_[b], storage_size(o))

\* An inline payload that would fit the destination's buffer has just been
\* moved out of a larger box: it sits in a heap block of the source's capacity.
C10_Witness ==
  /\ last.op = "move" /\ last.pre = "inline"
  /\ Owns(M, last.b) /\ is_allocated(M, last.b)
  /\ sizeof(obj[data_[last.b]].type) <= storage_size(last.b)
  /\ blk[BlockOf(data_[last.b])].size > storage_size(last.b)

\* C11 as stated: an inline-stored payload moved into a box whose inline
\* capacity is sufficient for the payload (its size and alignment fit the
\* destination's buffer) ends inline in the destination, without allocation.
C11_PayloadFitsStaysInline ==
  \A b, o \in Boxes :
    (/\ b # o /\ alive[o] /\ Owns(M, o) /\ is_inline(M, o)
     /\ sizeof(obj[data_[o]].type) <= storage_size(b)
     /\ alignof(obj[data_[o]].type) <= storage_align(storage_size(b))) =>
      LET r == Move(b, o)
      IN ~ r.oom => (is_inline(r, b) /\ Events(r, "alloc") = {})

\* C11, amended: an inline-stored payload moved into a box whose inline buffer
\* is sufficient for the source's whole buffer (capacity and alignment) ends
\* inline in the destination; the move allocates nothing, relocates the payload
\* once, leaves the source empty and the payload's value unchanged.
C11_SourceBufferFitsStaysInline ==
  \A b, o \in Boxes :
    (b # o /\ alive[o] /\ Owns(M, o) /\ is_inline(M, o) /\ FitsIn(b, o)) =>
      LET r == Move(b, o)
      IN /\ ~ r.oom /\ ~ r.ub
         /\ is_inline(r, b)
         /\ get(r, b) = InlineStorage(b)
         /\ Events(r, "alloc") = {}
         /\ Cardinality(Events(r, "move")) = 1
         /\ get(r, o) = nullptr
         /\ r.obj[get(r, b)] = obj[data_[o]]
         /\ f(r, b) = f(M, o)
         /\ r.blk = reset(M, b).blk

\* The SmallDerived (5) held inline by the smaller box has just been moved into
\* the larger box: it is inline there, and the smaller box is empty.
C11_Witness ==
  /\ last.op = "move" /\ last.pre = "inline"
  /\ last.b = "q"
  /\ is_inline(M, "q") /\ f(M, "q") = 5
  /\ alive["p"] /\ ~ Owns(M, "p")

\* C12: an inline-stored payload moved into a box whose inline capacity is
\* insufficient ends on the heap: the destination is allocated, the source is
\* empty, the move allocated exactly one block, and the value is unchanged.
C12_InsufficientCapacityRelocatesToHeap ==
  \A b, o \in Boxes :
    (b # o /\ alive[o] /\ Owns(M, o) /\ is_inline(M, o) /\ ~ FitsIn(b, o)) =>
      LET r == Move(b, o)
      IN ~ r.oom =>
           /\ ~ r.ub
           /\ Owns(r, b) /\ is_allocated(r, b)
           /\ LiveBlock(r, get(r, b))
           /\ get(r, o) = nullptr
           /\ Cardinality(Events(r, "alloc")) = 1
           /\ EventsAt(r, "alloc", get(r, b)) # {}
           /\ Cardinality(Events(r, "move")) = 1
           /\ r.obj[get(r, b)] = obj[data_[o]]
           /\ f(r, b) = f(M, o)

\* The BigDerived held inline by the larger box, too large for the smaller
\* box's buffer, has just been moved into the smaller box: it is on the heap.
C12_Witness ==
  /\ last.op = "move" /\ last.pre = "inline"
  /\ last.b = "p"
  /\ is_allocated(M, "p") /\ LiveBlock(M, data_["p"])
  /\ obj[data_["p"]].type = "BigDerived" /\ f(M, "p") = -1
  /\ alive["q"] /\ ~ Owns(M, "q")

\* C13: move assignment is reset, then the move of move construction: the
\* destination's current payload is destroyed exactly once, first of all, and
\* its heap block freed if it was heap-stored, before anything is allocated or
\* relocated, so the destination's buffer holds no live object when a payload
\* is relocated into it; afterwards the source is empty and the destination
\* holds the source's payload with its value.
C13_MoveAssignIsResetThenMove ==
  \A b, o \in Boxes :
    LET r == move_assign(M, b, o)
        c == move_from_other([reset(M, b) EXCEPT !.ev = <<>>], b, o)
        a == data_[b]
    IN (alive[b] /\ alive[o] /\ ~ r.oom) =>
         /\ ~ r.ub
         /\ Owns(M, b) =>
              /\ r.ev[1] = Ev("dtor", a, 0)
              /\ EventsAt(r, "dtor", a) = {1}
         /\ (Owns(M, b) /\ is_allocated(M, b)) =>
              /\ r.ev[2] = Ev("free", a, 0)
              /\ Events(r, "free") = {2}
         /\ ~ (Owns(M, b) /\ is_allocated(M, b)) => Events(r, "free") = {}
         /\ ~ Owns(M, b) => \A i \in Events(r, "dtor") : r.ev[i].a = data_[o]
         /\ \A i \in EventsAt(r, "dtor", a) \cup Events(r, "free"),
               j \in Events(r, "alloc") \cup Events(r, "move") : i < j
         /\ \A j \in Events(r, "move") :
              (r.ev[j].x = InlineStorage(b) /\ LiveObj(M, InlineStorage(b))) =>
                \E i \in EventsAt(r, "dtor", InlineStorage(b)) : i < j
         /\ r.data_ = c.data_ /\ r.obj = c.obj /\ r.blk = c.blk
         /\ get(r, o) = nullptr
         /\ (b # o /\ Owns(M, o)) =>
              /\ Owns(r, b)
              /\ r.obj[get(r, b)] = obj[data_[o]]
              /\ f(r, b) = f(M, o)

\* Both boxes held a SmallDerived inline; the smaller box has just been
\* move-assigned into the larger one, which reports 6; the smaller is empty.
C13_Witness ==
  /\ last.op = "move" /\ last.pre = "inline" /\ last.dst = "inline"
  /\ last.b = "q"
  /\ is_inline(M, "q") /\ f(M, "q") = 6
  /\ alive["p"] /\ get(M, "p") = nullptr

\* C14: the relocation of an inline-stored payload, in a move and in release (),
\* calls small_unique_ptr_move exactly once, from the old address to the new
\* storage, then destroys the original exactly once, at the old address and
\* right after the copy was constructed, and leaves the source box empty with
\* the copy alive at the new address.
C14_RelocationOrder ==
  /\ \A b, o \in Boxes :
       (b # o /\ alive[o] /\ Owns(M, o) /\ is_inline(M, o)) =>
         LET r == Move(b, o)
             a == data_[o]
         IN ~ r.oom =>
              /\ ~ r.ub
              /\ \E i \in 1 .. Len(r.ev) - 1 :
                   /\ Events(r, "move") = {i}
                   /\ r.ev[i] = Ev("move", a, get(r, b))
                   /\ EventsAt(r, "dtor", a) = {i + 1}
              /\ get(r, o) = nullptr
              /\ ~ LiveObj(r, a)
              /\ r.obj[get(r, b)] = obj[a]
  /\ \A b \in Boxes :
       (alive[b] /\ Owns(M, b) /\ is_inline(M, b)) =>
         LET r == release(M, b)
             a == data_[b]
         IN ~ r.oom =>
              /\ ~ r.ub
              /\ r.ev = <<Ev("alloc", r.ret, storage_size(b)),
                          Ev("move", a, r.ret),
                          Ev("dtor", a, 0)>>
              /\ get(r, b) = nullptr
              /\ ~ LiveObj(r, a)
              /\ r.obj[r.ret] = obj[a]

\* A box has just been move-constructed from a box holding its payload inline:
\* the copy lives in the new box, the source is empty and its buffer is dead.
C14_Witness ==
  /\ last.op = "move" /\ last.pre = "inline" /\ last.dst = "empty"
  /\ Owns(M, last.b) /\ LiveObj(M, data_[last.b])
  /\ \E o \in Boxes \ {last.b} :
       /\ alive[o] /\ get(M, o) = nullptr
       /\ ~ LiveObj(M, InlineStorage(o))

\* C15: release () of an inline-stored payload relocates it into a heap block
\* allocated by the call and returns that block, never an address of an inline
\* buffer; the box is then empty and the value unchanged; destroying the box
\* afterwards touches neither the object nor its block, which the caller can
\* then delete; and every pointer the caller holds designates a live object in
\* a live block that no box owns.
C15_ReleaseInlineGivesHeapObject ==
  /\ \A p \in raw : LiveBlock(M, p) /\ LiveObj(M, p) /\ Owners(M, p) = {}
  /\ \A b \in Boxes :
       (alive[b] /\ Owns(M, b) /\ is_inline(M, b)) =>
         LET r == release(M, b)
             d == reset([r EXCEPT !.ev = <<>>], b)
             x == delete_expr(d, r.ret)
         IN ~ r.oom =>
              /\ ~ r.ub
              /\ IsHeapAddr(r.ret)
              /\ \A c \in Boxes : ~ InBuffer(c, r.ret)
              /\ ~ LiveBlock(M, r.ret) /\ LiveBlock(r, r.ret)
              /\ Events(r, "alloc") = {1}
              /\ r.ev[1].a = r.ret
              /\ get(r, b) = nullptr
              /\ r.obj[r.ret] = obj[data_[b]]
              /\ d.ev = <<>>
              /\ d.obj[r.ret] = obj[data_[b]] /\ LiveBlock(d, r.ret)
              /\ ~ x.ub /\ ~ LiveBlock(x, r.ret) /\ ~ LiveObj(x, r.ret)

\* An inline payload has just been released: the box is empty, its buffer
\* dead, and the caller holds a live object in a block of the box's capacity.
C15_Witness ==
  /\ last.op = "release" /\ last.pre = "inline"
  /\ get(M, last.b) = nullptr
  /\ ~ LiveObj(M, InlineStorage(last.b))
  /\ \E p \in raw :
       /\ LiveObj(M, p) /\ LiveBlock(M, p)
       /\ blk[BlockOf(p)].size = storage_size(last.b)

\* C16: release () of a heap-stored payload returns exactly the pointer the
\* box held; it allocates, relocates, destroys and frees nothing; the box is
\* empty afterwards and its later reset or destruction leaves the block alone.
C16_ReleaseHeapReturnsPointer ==
  \A b \in Boxes :
    (alive[b] /\ Owns(M, b) /\ is_allocated(M, b)) =>
      LET r == release(M, b)
          d == reset(r, b)
      IN /\ ~ r.oom /\ ~ r.ub
         /\ r.ev = <<>>
         /\ r.ret = data_[b]
         /\ get(r, b) = nullptr
         /\ r.obj = obj /\ r.blk = blk
         /\ d.ev = <<>>
         /\ d.obj = obj /\ d.blk = blk
         /\ LiveBlock(d, r.ret) /\ LiveObj(d, r.ret)

\* A heap-stored BigDerived has just been released from the smaller box: the
\* box is empty and the caller holds the block, of the payload's own size.
C16_Witness ==
  /\ last.op = "release" /\ last.pre = "allocated"
  /\ last.b = "p"
  /\ get(M, "p") = nullptr
  /\ \E p \in raw :
       /\ LiveObj(M, p) /\ LiveBlock(M, p)
       /\ obj[p].type = "BigDerived"
       /\ blk[BlockOf(p)].size = sizeof("BigDerived")

\* C17: reset () destroys the payload as its storage requires: inline, one
\* destructor call and no free; heap-stored, one destructor call and then one
\* free of its block; the box is empty afterwards and nothing else changed;
\* reset () of an empty box does nothing.
C17_ResetByStorage ==
  \A b \in Boxes :
    alive[b] =>
      LET r == reset(M, b)
          a == data_[b]
      IN /\ ~ r.oom /\ ~ r.ub
         /\ get(r, b) = nullptr
         /\ \A c \in Boxes \ {b} : get(r, c) = data_[c]
         /\ (Owns(M, b) /\ is_inline(M, b)) =>
              /\ r.ev = <<Ev("dtor", a, 0)>>
              /\ r.obj = [obj EXCEPT ![a] = NoObj]
              /\ r.blk = blk
         /\ (Owns(M, b) /\ is_allocated(M, b)) =>
              /\ r.ev = <<Ev("dtor", a, 0), Ev("free", a, 0)>>
              /\ r.obj = [obj EXCEPT ![a] = NoObj]
              /\ r.blk = [blk EXCEPT ![BlockOf(a)] = FreeBlock]
         /\ ~ Owns(M, b) =>
              /\ r.ev = <<>>
              /\ r.data_ = data_ /\ r.obj = obj /\ r.blk = blk

\* A box holding an inline payload has just been reset while the other box
\* holds a heap-stored one: the box is empty, and the other's block is live.
C17_Witness ==
  /\ last.op = "reset" /\ last.pre = "inline"
  /\ alive[last.b] /\ get(M, last.b) = nullptr
  /\ ~ LiveObj(M, InlineStorage(last.b))
  /\ \E o \in Boxes \ {last.b} : Owns(M, o) /\ LiveBlock(M, data_[o])

\* C18: adopting a raw pointer p the caller owns, or nullptr (constructor from
\* pointer, operator= (pointer), reset (pointer)), destroys the current
\* payload as reset () does and allocates nothing; afterwards get () = p; a
\* non-null p is held as heap-stored, so that the next reset () or destruction
\* destroys it and frees its block exactly once; a null p leaves the box empty.
C18_AdoptPointer ==
  \A b \in Boxes, p \in raw \cup {nullptr} :
    LET r == Adopt(b, p)
        d == reset([r EXCEPT !.ev = <<>>], b)
    IN /\ ~ r.oom /\ ~ r.ub
       /\ r.ev = (IF alive[b] THEN reset(M, b).ev ELSE <<>>)
       /\ Events(r, "alloc") = {} /\ Events(r, "move") = {}
       /\ get(r, b) = p
       /\ p # nullptr =>
            /\ is_allocated(r, b)
            /\ LiveObj(r, p) /\ LiveBlock(r, p)
            /\ r.obj[p] = obj[p]
            /\ d.ev = <<Ev("dtor", p, 0), Ev("free", p, 0)>>
            /\ ~ d.ub /\ ~ LiveBlock(d, p)
       /\ p = nullptr => (~ Owns(r, b) /\ d.ev = <<>>)

\* A box that held an inline payload has just adopted a pointer of the caller:
\* it holds that heap object, its buffer is dead, the caller has no pointer left.
C18_Witness ==
  /\ last.op = "adopt" /\ last.pre = "inline"
  /\ Owns(M, last.b) /\ is_allocated(M, last.b)
  /\ LiveBlock(M, data_[last.b])
  /\ ~ LiveObj(M, InlineStorage(last.b))
  /\ raw = {}

\* C19: move construction or move assignment from an empty source makes the
\* destination empty: the destination's previous payload, if any, is destroyed
\* as reset () does, nothing is allocated or relocated, nothing else changes,
\* and the source stays empty.
C19_MoveFromEmpty ==
  \A b, o \in Boxes :
    (alive[o] /\ ~ Owns(M, o)) =>
      LET r == Move(b, o)
          d == IF alive[b] THEN reset(M, b) ELSE Fresh(b)
      IN /\ ~ r.oom /\ ~ r.ub
         /\ get(r, b) = nullptr
         /\ get(r, o) = nullptr
         /\ Events(r, "alloc") = {} /\ Events(r, "move") = {}
         /\ Events(r, "ctor") = {}
         /\ r.ev = d.ev
         /\ r.data_ = d.data_ /\ r.obj = d.obj /\ r.blk = d.blk
         /\ Owns(M, b) => (~ LiveObj(r, data_[b]) /\ EventsAt(r, "dtor", data_[b]) = {1})

\* A box holding a heap-stored payload has just been move-assigned from the
\* other, empty, box: both are empty and the heap is free.
C19_Witness ==
  /\ last.op = "move" /\ last.pre = "empty" /\ last.dst = "allocated"
  /\ \A b \in Boxes : alive[b] /\ get(M, b) = nullptr
  /\ AllFree(M)

\* C20: emplace<U> (args) on a box in any state (empty, inline, heap-stored)
\* whose constructor returns yields a non-empty box holding a U built from
\* args, whose f () is the value args imply (the argument for SmallDerived, -1
\* for BigDerived), stored inline exactly when U's size and alignment fit the
\* box's buffer, whatever the storage of the payload it replaced.
C20_EmplaceRoundTrip ==
  \A b \in Boxes, U \in Types : \A v \in Args(U) :
    LET r == emplace(M, b, U, v, TRUE)
    IN (alive[b] /\ ~ r.oom) =>
         /\ ~ r.ub /\ ~ r.threw
         /\ get(r, b) # nullptr
         /\ r.obj[get(r, b)] = [type |-> U, val |-> v]
         /\ U = "SmallDerived" => f(r, b) = v
         /\ U = "BigDerived" => f(r, b) = -1
         /\ is_inline(r, b) <=>
              (sizeof(U) <= storage_size(b) /\ alignof(U) <= storage_align(storage_size(b)))
         /\ is_allocated(r, b) <=>
              (sizeof(U) > storage_size(b) \/ alignof(U) > storage_align(storage_size(b)))
         /\ is_allocated(r, b) =>
              (LiveBlock(r, get(r, b)) /\ r.blk[BlockOf(get(r, b))].size = sizeof(U))

\* emplace<SmallDerived> (5) has just replaced a heap-stored payload of the
\* smaller box: the box holds the new payload inline and reports 5.
C20_Witness ==
  /\ last.op = "build" /\ last.pre = "allocated"
  /\ last.b = "p"
  /\ is_inline(M, "p") /\ f(M, "p") = 5
  /\ AllFree(M)

\* C21 as stated: make_small_unique<T> (args) with the default capacity returns
\* a box holding its payload inline, whatever T.
C21_MakeSmallUniqueAlwaysInline ==
  last.op = "make" => is_inline(M, last.b)

\* C21, amended: make_small_unique<T> (args) with the default capacity returns
\* a box of capacity sizeof (T), non-empty, holding T (args) with the value args
\* imply; when alignof (T) does not exceed the alignment of a buffer of
\* sizeof (T) bytes the payload is inline and nothing was allocated; an
\* over-aligned T is heap-stored.
C21_MakeSmallUniqueInlineWhenAligned ==
  \A b \in Boxes, U \in Types : \A v \in Args(U) :
    (~ alive[b] /\ storage_size(b) = sizeof(U)) =>
      LET r == make_small_unique(Fresh(b), b, U, v, TRUE)
      IN ~ r.oom =>
           /\ ~ r.ub /\ ~ r.threw
           /\ get(r, b) # nullptr
           /\ r.obj[get(r, b)] = [type |-> U, val |-> v]
           /\ U = "SmallDerived" => f(r, b) = v
           /\ alignof(U) <= storage_align(sizeof(U)) =>
                /\ is_inline(r, b)
                /\ Events(r, "alloc") = {}
                /\ r.blk = blk
           /\ alignof(U) > storage_align(sizeof(U)) =>
                /\ is_allocated(r, b)
                /\ Cardinality(Events(r, "alloc")) = 1

\* make_small_unique<SmallDerived> (5) has just returned: the box of capacity
\* sizeof (SmallDerived) holds the payload inline and reports 5.
C21_Witness ==
  /\ last.op = "make"
  /\ storage_size(last.b) = sizeof("SmallDerived")
  /\ is_inline(M, last.b)
  /\ obj[data_[last.b]].type = "SmallDerived" /\ f(M, last.b) = 5

\* C24: heap storage is sticky. In every step that is a move construction or a
\* move assignment between two boxes, a box comes to hold a payload inline only
\* when the source held it inline; a heap-stored payload that is moved stays
\* the same object at the same heap address in the same block, and the
\* destination holds it as allocated, even when it would fit the destination's
\* buffer.
C24_HeapIsSticky ==
  [][last'.op = "move" =>
       /\ \A b \in Boxes :
            (is_inline(M', b) /\ data_'[b] # data_[b]) =>
              (b = last'.b /\ last'.pre = "inline")
       /\ \A o \in Boxes \ {last'.b} :
            (alive[o] /\ Owns(M, o) /\ is_allocated(M, o) /\ ~ Owns(M', o)) =>
              /\ data_'[last'.b] = data_[o]
              /\ is_allocated(M', last'.b)
              /\ obj'[data_[o]] = obj[data_[o]]
              /\ blk'[BlockOf(data_[o])] = blk[BlockOf(data_[o])]
              /\ LiveBlock(M', data_[o])]_vars

\* The BigDerived built on the heap by the smaller box has just been moved into
\* the larger box, whose buffer it would fit: it is still heap-stored.
C24_Witness ==
  /\ last.op = "move" /\ last.pre = "allocated"
  /\ last.b = "q"
  /\ is_allocated(M, "q") /\ LiveBlock(M, data_["q"])
  /\ obj[data_["q"]].type = "BigDerived"
  /\ sizeof("BigDerived") <= storage_size("q")
  /\ alignof("BigDerived") <= storage_align(storage_size("q"))

\* C25: small_unique_ptr_move is called only when an inline-stored payload is
\* moved to another box or released, and then once; construction in place,
\* make_small_unique, emplace, reset, the adoption of a pointer, destruction,
\* and the move or release of a heap-stored payload or of an empty box never
\* call it.
C25_RelocationOnlyForInlineMoveOrRelease ==
  /\ \A b \in Boxes, U \in Types : \A v \in Args(U), ok \in BOOLEAN :
       /\ Events(InPlace(b, U, v, ok), "move") = {}
       /\ Events(make_small_unique(Fresh(b), b, U, v, ok), "move") = {}
  /\ \A b \in Boxes :
       /\ Events(reset(M, b), "move") = {}
       /\ \A p \in raw \cup {nullptr} : Events(Adopt(b, p), "move") = {}
       /\ Cardinality(Events(release(M, b), "move"))
            = (IF Owns(M, b) /\ is_inline(M, b) /\ ~ release(M, b).oom THEN 1 ELSE 0)
       /\ \A o \in Boxes :
            Cardinality(Events(Move(b, o), "move"))
              = (IF Owns(M, o) /\ is_inline(M, o) /\ b # o /\ ~ Move(b, o).oom
                 THEN 1 ELSE 0)
       /\ Cardinality(Events(move_from_other(Fresh(b), b, b), "move")) = 0

\* A box holding an inline payload has just been destroyed while the other box
\* holds an inline payload too: both buffers were left where they were.
C25_Witness ==
  /\ last.op = "destroy" /\ last.pre = "inline"
  /\ ~ alive[last.b]
  /\ ~ LiveObj(M, InlineStorage(last.b))
  /\ \E o \in Boxes \ {last.b} :
       alive[o] /\ is_inline(M, o) /\ LiveObj(M, InlineStorage(o))

\* C28: b = std::move (b) on a non-empty box destroys the payload exactly once,
\* frees its block once when it was heap-stored and nothing otherwise,
\* relocates and allocates nothing, and leaves the box empty: it does exactly
\* what reset () does.
C28_SelfMoveAssign ==
  /\ last.op = "self_move" => (get(M, last.b) = nullptr /\ ~ ub)
  /\ \A b \in Boxes :
       (alive[b] /\ Owns(M, b)) =>
         LET r == move_assign(M, b, b)
             a == data_[b]
         IN /\ ~ r.oom /\ ~ r.ub
            /\ r.ev = (IF is_allocated(M, b)
                       THEN <<Ev("dtor", a, 0), Ev("free", a, 0)>>
                       ELSE <<Ev("dtor", a, 0)>>)
            /\ get(r, b) = nullptr
            /\ ~ LiveObj(r, a)
            /\ r.data_ = reset(M, b).data_
            /\ r.obj = reset(M, b).obj
            /\ r.blk = reset(M, b).blk

\* A box holding a heap-stored payload has just been move-assigned from
\* itself: it is empty and its block is free.
C28_Witness ==
  /\ last.op = "self_move" /\ last.pre = "allocated"
  /\ alive[last.b] /\ get(M, last.b) = nullptr
  /\ AllFree(M)
  /\ ~ ub

----------------------------------------------------------------------------
\* Optional<T>, with T = int.

\* Bound of the model: the int values held are 0 .. MaxT.
MaxT == 2
TVals == 0 .. MaxT

\* new (&storage_) T (v), after assert (!has_value_).
Optional_create(s, x, v) ==
  [s EXCEPT !.failed = @ \/ s.has_value_[x],
            !.storage_[x] = v,
            !.has_value_[x] = TRUE]

\* value_ptr ()->~T (), after assert (has_value_).
Optional_destroy(s, x) ==
  [s EXCEPT !.failed = @ \/ ~ s.has_value_[x],
            !.storage_[x] = NoT,
            !.has_value_[x] = FALSE]

\* Mutant of reset: destroy () without the test of has_value_.
Optional_reset_unconditional(s, x) == Optional_destroy(s, x)

Optional_reset(s, x) == IF s.has_value_[x] THEN Optional_destroy(s, x) ELSE s

Optional_emplace(s, x, v) == Optional_create(Optional_reset(s, x), x, v)

\* constexpr operator bool () const, and the conversion of a bool to int.
Optional_operator_bool(s, o) == s.has_value_[o]
int_from_bool(c) == IF c THEN 1 ELSE 0

\* operator= (const Optional & other): create (*other)
Optional_copy_assign(s, x, o) ==
  LET s1 == Optional_reset(s, x)
  IN IF Optional_operator_bool(s1, o)
     THEN Optional_create(s1, x, s1.storage_[o])
     ELSE s1

\* operator= (Optional && other): create (std::move (other)), which builds the
\* int from the Optional itself, through its conversion to bool.
Optional_move_assign(s, x, o) ==
  LET s1 == Optional_reset(s, x)
  IN IF Optional_operator_bool(s1, o)
     THEN Optional_create(s1, x, int_from_bool(Optional_operator_bool(s1, o)))
     ELSE s1

\* operator= (U && u)
Optional_value_assign(s, x, v) == Optional_create(Optional_reset(s, x), x, v)

\* Optional (const Optional &) and Optional (Optional &&): create (*other)
Optional_construct_from(s, x, o) ==
  IF Optional_operator_bool(s, o) THEN Optional_create(s, x, s.storage_[o]) ELSE s

Optional_swap(s, x, o) ==
  IF s.has_value_[x] /\ s.has_value_[o]
  THEN [s EXCEPT !.storage_[x] = s.storage_[o], !.storage_[o] = s.storage_[x]]
  ELSE IF ~ s.has_value_[x] /\ s.has_value_[o]
  THEN Optional_destroy(Optional_create(s, x, s.storage_[o]), o)
  ELSE IF s.has_value_[x] /\ ~ s.has_value_[o]
  THEN Optional_destroy(Optional_create(s, o, s.storage_[x]), x)
  ELSE s

\* The state after an operation on x that ended in r; src is the value the
\* operation was given (NoT for none, or for an empty source).
OptCommit(r, op, x, src) ==
  /\ opt' = [r EXCEPT !.last = [op |-> op, x |-> x, src |-> src]]
  /\ UNCHANGED <<vars, dec, flt, rng>>

\* The Optional x comes to exist: bool has_value_{false}.
OptFresh(x) == [opt EXCEPT !.alive[x] = TRUE, !.has_value_[x] = FALSE]

OptDefaultConstruct(x) ==
  /\ ~ opt.alive[x]
  /\ OptCommit(OptFresh(x), "construct", x, NoT)

OptCopyConstruct(x, o) ==
  /\ ~ opt.alive[x] /\ opt.alive[o]
  /\ OptCommit(Optional_construct_from(OptFresh(x), x, o), "copy_construct", x, opt.storage_[o])

OptMoveConstruct(x, o) ==
  /\ ~ opt.alive[x] /\ opt.alive[o]
  /\ OptCommit(Optional_construct_from(OptFresh(x), x, o), "move_construct", x, opt.storage_[o])

OptInPlaceConstruct(x, v) ==
  /\ ~ opt.alive[x]
  /\ OptCommit(Optional_create(OptFresh(x), x, v), "in_place", x, v)

OptDestroy(x) ==
  /\ opt.alive[x]
  /\ OptCommit([Optional_reset(opt, x) EXCEPT !.alive[x] = FALSE], "destroy", x, NoT)

OptCopyAssign(x, o) ==
  /\ opt.alive[x] /\ opt.alive[o]
  /\ OptCommit(Optional_copy_assign(opt, x, o), "copy_assign", x, opt.storage_[o])

OptMoveAssign(x, o) ==
  /\ opt.alive[x] /\ opt.alive[o]
  /\ OptCommit(Optional_move_assign(opt, x, o),
               IF x = o THEN "self_move_assign" ELSE "move_assign", x, opt.storage_[o])

OptValueAssign(x, v) ==
  /\ opt.alive[x]
  /\ OptCommit(Optional_value_assign(opt, x, v), "value_assign", x, v)

OptEmplace(x, v) ==
  /\ opt.alive[x]
  /\ OptCommit(Optional_emplace(opt, x, v), "emplace", x, v)

OptReset(x) ==
  /\ opt.alive[x]
  /\ OptCommit(Optional_reset(opt, x), "reset", x, NoT)

OptSwap(x, o) ==
  /\ opt.alive[x] /\ opt.alive[o]
  /\ OptCommit(Optional_swap(opt, x, o), "swap", x, opt.storage_[o])

OptNext ==
  \/ \E x \in Opts : OptDefaultConstruct(x)
  \/ \E x \in Opts, o \in Opts : OptCopyConstruct(x, o)
  \/ \E x \in Opts, o \in Opts : OptMoveConstruct(x, o)
  \/ \E x \in Opts, v \in TVals : OptInPlaceConstruct(x, v)
  \/ \E x \in Opts : OptDestroy(x)
  \/ \E x \in Opts, o \in Opts : OptCopyAssign(x, o)
  \/ \E x \in Opts, o \in Opts : OptMoveAssign(x, o)
  \/ \E x \in Opts, v \in TVals : OptValueAssign(x, v)
  \/ \E x \in Opts, v \in TVals : OptEmplace(x, v)
  \/ \E x \in Opts : OptReset(x)
  \/ \E x \in Opts, o \in Opts : OptSwap(x, o)

SpecOptional == Init /\ [][OptNext]_<<vars, others>>

\* C29 as stated: after a move assignment from another Optional, the
\* destination holds a value equal to the one the source held, or is empty
\* when the source was empty.
C29_MoveAssignTakesValue ==
  opt.last.op = "move_assign" =>
    IF opt.last.src # NoT
    THEN opt.has_value_[opt.last.x] /\ opt.storage_[opt.last.x] = opt.last.src
    ELSE ~ opt.has_value_[opt.last.x]

\* C30: under every sequence of constructions, destructions, copy, move and
\* value assignments, emplace, reset and swap, no assert of Optional fails
\* (create () finds no value, destroy () finds one), and has_value_ is true
\* exactly when a constructed int lives in storage_.
C30_AssertionsHold ==
  /\ ~ opt.failed
  /\ \A x \in Opts :
       /\ opt.has_value_[x] <=> opt.storage_[x] # NoT
       /\ opt.has_value_[x] => opt.alive[x]

\* A swap has just moved the value of one Optional into the other, empty, one.
C30_Witness ==
  /\ opt.last.op = "swap"
  /\ opt.last.src # NoT
  /\ opt.has_value_[opt.last.x] /\ opt.storage_[opt.last.x] = opt.last.src
  /\ \E o \in Opts \ {opt.last.x} : opt.alive[o] /\ ~ opt.has_value_[o]
  /\ ~ opt.failed

-----------------------------------------------------------------------------
\* Format::DecimalInteger<Int> (format/basic.h), for an integer type Int
\* narrower than int, signed (signed char) or unsigned (unsigned char): the
\* operands of the arithmetic are promoted to int, and the result is converted
\* back to Int modulo 2^IntBits on assignment.

IntBits == 8
IntMin(sg) == IF sg THEN -(2 ^ (IntBits - 1)) ELSE 0
IntMax(sg) == IF sg THEN 2 ^ (IntBits - 1) - 1 ELSE 2 ^ IntBits - 1
IntVals(sg) == IntMin(sg) .. IntMax(sg)

\* Conversion of an int to Int.
to_Int(sg, n) ==
  IF sg THEN ((n + 2 ^ (IntBits - 1)) % (2 ^ IntBits)) - 2 ^ (IntBits - 1)
        ELSE n % (2 ^ IntBits)

\* Integer division and remainder of C++: the quotient is truncated towards
\* zero, the remainder has the sign of the dividend.
cdiv(a, b) == IF a >= 0 THEN a \div b ELSE -((-a) \div b)
cmod(a, b) == a - b * cdiv(a, b)

\* Character codes.
char_0 == 48
char_minus == 45

\* std::numeric_limits<Int>::digits10.
digits10(sg) ==
  LET digits == IF sg THEN IntBits - 1 ELSE IntBits
  IN CHOOSE d \in 0 .. digits : 10 ^ d <= 2 ^ digits /\ 10 ^ (d + 1) > 2 ^ digits
max_digits(sg) == digits10(sg) + 1

\* while (i != 0) { ++digits; i /= 10; }
RECURSIVE size_loop(_, _)
size_loop(sg, i) ==
  IF i = 0 THEN 0 ELSE 1 + size_loop(sg, to_Int(sg, cdiv(i, 10)))

DecimalInteger_size(sg, i_) ==
  IF i_ = 0 THEN 1
  ELSE IF i_ < 0 THEN 1 + size_loop(sg, to_Int(sg, -i_))
  ELSE size_loop(sg, i_)

\* while (i != 0) { *--buf_it = (i % 10) + '0'; i /= 10; }
\* buf is the part of the buffer between buf_it and std::end (buf).
RECURSIVE write_loop(_, _, _)
write_loop(sg, i, buf) ==
  IF i = 0 THEN buf
  ELSE write_loop(sg, to_Int(sg, cdiv(i, 10)), <<cmod(i, 10) + char_0>> \o buf)

\* The characters written through the output iterator, and whether buf_it
\* went below the start of buf.
DecimalInteger_write(sg, i_) ==
  IF i_ = 0 THEN [out |-> <<char_0>>, overrun |-> FALSE]
  ELSE LET i == IF i_ < 0 THEN to_Int(sg, -i_) ELSE i_
           head == IF i_ < 0 THEN <<char_minus>> ELSE <<>>
           buf == write_loop(sg, i, <<>>)
       IN [out |-> head \o buf, overrun |-> Len(buf) > max_digits(sg)]

DecCommit(d) ==
  /\ dec' = d
  /\ UNCHANGED <<vars, opt, flt, rng>>

DecConstruct(sg, i) ==
  /\ ~ dec.alive
  /\ DecCommit([DecIdle EXCEPT !.alive = TRUE, !.signed = sg, !.i_ = i])

DecSize ==
  /\ dec.alive
  /\ DecCommit([dec EXCEPT !.size = DecimalInteger_size(dec.signed, dec.i_)])

DecWrite ==
  /\ dec.alive
  /\ LET w == DecimalInteger_write(dec.signed, dec.i_)
     IN DecCommit([dec EXCEPT !.wrote = TRUE, !.out = w.out,
                              !.overrun = w.overrun])

DecDestroy ==
  /\ dec.alive
  /\ DecCommit(DecIdle)

DecNext ==
  \/ \E sg \in BOOLEAN : \E i \in IntVals(sg) : DecConstruct(sg, i)
  \/ DecSize
  \/ DecWrite
  \/ DecDestroy

SpecDecimal == Init /\ [][DecNext]_<<vars, others>>

\* The decimal representation of the integer n.
RECURSIVE Digits(_)
Digits(n) == IF n = 0 THEN <<>> ELSE Append(Digits(n \div 10), char_0 + (n % 10))
Decimal(n) ==
  IF n = 0 THEN <<char_0>>
  ELSE IF n < 0 THEN <<char_minus>> \o Digits(-n) ELSE Digits(n)

\* C27 as stated: for every value of a signed or unsigned Int, the minimum of
\* a signed type included, write () emits the decimal representation of the
\* value, size () is the number of characters write () emits, and the buffer
\* of digits10 + 1 characters is not overrun.
C27_DecimalRepresentation ==
  /\ dec.wrote => dec.out = Decimal(dec.i_) /\ ~ dec.overrun
  /\ dec.wrote /\ dec.size # NoSize => dec.size = Len(dec.out)

\* What does hold for every value: size () is the number of characters
\* write () emits, the buffer is not overrun, and the output is the decimal
\* representation unless the value is the minimum of a signed type.
C27_SizeMatchesWrite ==
  /\ dec.wrote => ~ dec.overrun
  /\ dec.wrote /\ dec.size # NoSize => dec.size = Len(dec.out)
  /\ dec.wrote /\ ~ (dec.signed /\ dec.i_ = IntMin(TRUE)) =>
       dec.out = Decimal(dec.i_)

-----------------------------------------------------------------------------
\* filtered_range (range/combinator.h) over a container of int, and over
\* another filtered_range (a chain of filters).  The range of level 0 is the
\* container, the range of level k > 0 filters the range of level k - 1 with
\* preds[k].  An iterator of any level is a position of the container, 1 ..
\* Len (inner), or one past its last element: a filter iterator holds nothing
\* but the iterator of its inner range.

MaxLen == 3
MaxElem == 2
Elems == 0 .. MaxElem
Inners == UNION {[1 .. n -> Elems] : n \in 0 .. MaxLen}
Preds == {"even", "lt2", "gt0"}
Chains == {<<p>> : p \in Preds} \cup {<<p, q>> : p \in Preds, q \in Preds}

\* The predicates of the filters.
predicate_(p, v) ==
  CASE p = "even" -> v % 2 = 0
    [] p = "lt2" -> v < 2
    [] p = "gt0" -> v > 0

adl_end(R) == Len(R.inner) + 1

RECURSIVE range_begin(_, _)
RECURSIVE range_inc(_, _, _)
RECURSIVE find_if(_, _, _, _)

\* inner_iterator next (inner_iterator from) of the range of level k.
next(R, k, from) == find_if(R, k - 1, from, R.preds[k])

next_after(R, k, from) ==
  IF from = adl_end(R) THEN from
  ELSE next(R, k, range_inc(R, k - 1, from))

\* A begin () that forgets to skip to the first match.
begin_unfiltered(R, k) == 1

\* begin () of the range of level k.
range_begin(R, k) ==
  IF k = 0 THEN 1 ELSE next(R, k, range_begin(R, k - 1))

\* operator++ of an iterator of the range of level k.
range_inc(R, k, it) ==
  IF k = 0 THEN it + 1 ELSE next_after(R, k, it)

\* std::find_if (from, end, p) on iterators of the range of level k.
find_if(R, k, from, p) ==
  IF from = adl_end(R) THEN from
  ELSE IF predicate_(p, R.inner[from]) THEN from
  ELSE find_if(R, k, range_inc(R, k, from), p)

\* std::find_if (RevIt{from}, RevIt{b}, p) on the iterators of a container:
\* a reverse iterator is held as its base (), it designates the element
\* before its base, and incrementing it decrements the base.
RECURSIVE find_if_reverse(_, _, _, _)
find_if_reverse(R, from, b, p) ==
  IF from = b THEN from
  ELSE IF predicate_(p, R.inner[from - 1]) THEN from
  ELSE find_if_reverse(R, from - 1, b, p)

\* previous_before of a filter of the container.
previous_before(R, from) ==
  LET b == 1
  IN IF from = b THEN from
     ELSE LET from1 == from - 1
              rev_end == b
              rev_next == find_if_reverse(R, from1, rev_end, R.preds[1])
          IN IF rev_next # rev_end THEN rev_next ELSE from1

\* duck::size and duck::empty of a range whose iterators are not random
\* access: the number of increments from begin () to end (), and
\* begin () == end ().
RECURSIVE distance(_, _, _)
distance(R, k, from) ==
  IF from = adl_end(R) THEN 0 ELSE 1 + distance(R, k, range_inc(R, k, from))
size(R) == distance(R, Len(R.preds), range_begin(R, Len(R.preds)))
empty(R) == range_begin(R, Len(R.preds)) = adl_end(R)

FltCommit(r, op, from, ret) ==
  /\ flt' = [r EXCEPT !.last = [op |-> op, from |-> from, ret |-> ret]]
  /\ UNCHANGED <<vars, opt, dec, rng>>

\* C{...} | filter (p)   and   C{...} | filter (p) | filter (q)
FltConstruct(s, ps) ==
  /\ ~ flt.alive
  /\ FltCommit([FltIdle EXCEPT !.alive = TRUE, !.inner = s, !.preds = ps],
               "filter", NoIt, 0)

\* auto it = r.begin (): the start of a traversal.
FltBegin ==
  /\ flt.alive
  /\ FltCommit([flt EXCEPT !.it_ = range_begin(flt, Len(flt.preds)),
                           !.iter = TRUE, !.out = <<>>],
               "begin", NoIt, 0)

\* auto it = r.end ()
FltEnd ==
  /\ flt.alive
  /\ FltCommit([flt EXCEPT !.it_ = adl_end(flt), !.iter = FALSE, !.out = <<>>],
               "end", NoIt, 0)

\* One round of   for (; it != r.end (); ++it) use (*it);
FltStep ==
  /\ flt.alive /\ flt.iter
  /\ flt.it_ # adl_end(flt)
  /\ FltCommit([flt EXCEPT !.out = Append(flt.out, flt.inner[flt.it_]),
                           !.it_ = next_after(flt, Len(flt.preds), flt.it_)],
               "step", flt.it_, 0)

\* --it, on an iterator of a filter of the container.
FltDecrement ==
  /\ flt.alive /\ flt.it_ # NoIt
  /\ Len(flt.preds) = 1
  /\ FltCommit([flt EXCEPT !.it_ = previous_before(flt, flt.it_),
                           !.iter = FALSE, !.out = <<>>],
               "dec", flt.it_, 0)

FltSize ==
  /\ flt.alive
  /\ FltCommit(flt, "size", NoIt, size(flt))

FltEmpty ==
  /\ flt.alive
  /\ FltCommit(flt, "empty", NoIt, IF empty(flt) THEN 1 ELSE 0)

FltDestroy ==
  /\ flt.alive
  /\ FltCommit(FltIdle, "init", NoIt, 0)

FltNext ==
  \/ \E s \in Inners, ps \in Chains : FltConstruct(s, ps)
  \/ FltBegin
  \/ FltEnd
  \/ FltStep
  \/ FltDecrement
  \/ FltSize
  \/ FltEmpty
  \/ FltDestroy

SpecFilter == Init /\ [][FltNext]_<<vars, others>>

\* The element v satisfies every predicate of the chain.
SatisfiesAll(v) == \A k \in 1 .. Len(flt.preds) : predicate_(flt.preds[k], v)
\* The elements of the first n elements of the container that satisfy every
\* predicate, in the order of the container.
Matching(n) == SelectSeq(SubSeq(flt.inner, 1, n), SatisfiesAll)

\* C22: a traversal of a filtered range from begin () yields the elements of
\* the inner range that satisfy the predicate (both predicates, for a chain of
\* two filters), each once and in the order of the inner range: at every
\* point the iterator is at end () or on a matching element, and what was
\* yielded is the matching elements before it; at end () it is all of them.
\* The size is their number, and the range is empty exactly when there is
\* none, as when the inner range is empty.
C22_FilterYieldsMatching ==
  /\ flt.iter =>
       /\ flt.it_ \in 1 .. adl_end(flt)
       /\ flt.it_ # adl_end(flt) => SatisfiesAll(flt.inner[flt.it_])
       /\ flt.out = Matching(flt.it_ - 1)
  /\ flt.last.op = "size" => flt.last.ret = Len(Matching(Len(flt.inner)))
  /\ flt.last.op = "empty" =>
       /\ flt.last.ret = 1 <=> Matching(Len(flt.inner)) = <<>>
       /\ flt.inner = <<>> => flt.last.ret = 1

\* A traversal of a chain of two filters has reached end () after yielding
\* some of the elements and skipping one that satisfies the first predicate
\* only and one that satisfies the second only.
C22_Witness ==
  /\ flt.iter /\ flt.it_ = adl_end(flt) /\ flt.last.op = "step"
  /\ Len(flt.preds) = 2
  /\ flt.out # <<>>
  /\ \E i \in 1 .. Len(flt.inner) :
       predicate_(flt.preds[1], flt.inner[i]) /\ ~ predicate_(flt.preds[2], flt.inner[i])
  /\ \E i \in 1 .. Len(flt.inner) :
       ~ predicate_(flt.preds[1], flt.inner[i]) /\ predicate_(flt.preds[2], flt.inner[i])

\* The position of the nearest element before from that satisfies the
\* predicate, from itself when there is none.
NearestBefore(from) ==
  LET S == {j \in 1 .. from - 1 : SatisfiesAll(flt.inner[j])}
  IN IF S = {} THEN from ELSE CHOOSE j \in S : \A i \in S : i <= j

\* C26 as stated: decrementing an iterator of a filtered range moves it to
\* the nearest earlier element of the inner range that satisfies the
\* predicate, and leaves it unchanged when no earlier element does.
C26_DecrementFindsPrevious ==
  flt.last.op = "dec" => flt.it_ = NearestBefore(flt.last.from)

-----------------------------------------------------------------------------
\* Integer range (range/range.h): IteratorPair<IntegerIterator<Int>> for a
\* signed Int that is not promoted (int): arithmetic on n_ is done in Int,
\* with RangeBits bits here, and std::ptrdiff_t is twice as wide.

RangeBits == 3
RangeMin == -(2 ^ (RangeBits - 1))
RangeMax == 2 ^ (RangeBits - 1) - 1
RangeInts == RangeMin .. RangeMax

\* n_ - o.n_ in Int: the difference when Int can hold it.  When not, the
\* signed subtraction overflows, which is undefined: the subtraction done in
\* the width of Int wraps around, one done in the wider register of the
\* result does not.
int_minus(a, b) ==
  IF a - b \in RangeInts THEN {a - b}
  ELSE {((a - b - RangeMin) % (2 ^ RangeBits)) + RangeMin, a - b}
int_minus_overflows(a, b) == a - b \notin RangeInts

\* difference_type operator- (const IntegerIterator & o): the values it can
\* return; the conversion of an Int to std::ptrdiff_t keeps the value.
IntegerIterator_minus(a, b) == int_minus(a, b)

RngCommit(r, op, ret) ==
  /\ rng' = [r EXCEPT !.last = [op |-> op, ret |-> ret]]
  /\ UNCHANGED <<vars, opt, dec, flt>>

\* range (from, to), for from <= to.
RngRange(from, to) ==
  /\ ~ rng.alive
  /\ from <= to
  /\ RngCommit([RngIdle EXCEPT !.alive = TRUE, !.from = from, !.to = to,
                               !.begin_ = from, !.end_ = to],
               "range", 0)

\* range (to), for 0 <= to: range (Int{0}, to).
RngRangeTo(to) ==
  /\ ~ rng.alive
  /\ 0 <= to
  /\ RngCommit([RngIdle EXCEPT !.alive = TRUE, !.from = 0, !.to = to,
                               !.begin_ = 0, !.end_ = to],
               "range_to", 0)

\* auto it = r.begin (): the start of a traversal.
RngBegin ==
  /\ rng.alive
  /\ RngCommit([rng EXCEPT !.it_ = rng.begin_, !.iter = TRUE, !.out = <<>>],
               "begin", 0)

\* One round of   for (; it != r.end (); ++it) use (*it);
RngStep ==
  /\ rng.alive /\ rng.iter
  /\ rng.it_ # rng.end_
  /\ RngCommit([rng EXCEPT !.out = Append(rng.out, rng.it_),
                           !.it_ = rng.it_ + 1],
               "step", 0)

\* Base::size (): std::distance (begin (), end ()), end () - begin () for a
\* random access iterator.
RngSize ==
  /\ rng.alive
  /\ \E d \in IntegerIterator_minus(rng.end_, rng.begin_) :
       RngCommit([rng EXCEPT !.ub = rng.ub \/ int_minus_overflows(rng.end_, rng.begin_)],
                 "size", d)

\* Base::empty ()
RngEmpty ==
  /\ rng.alive
  /\ RngCommit(rng, "empty", IF rng.begin_ = rng.end_ THEN 1 ELSE 0)

RngDestroy ==
  /\ rng.alive
  /\ RngCommit(RngIdle, "init", 0)

RngNext ==
  \/ \E from \in RangeInts, to \in RangeInts : RngRange(from, to)
  \/ \E to \in RangeInts : RngRangeTo(to)
  \/ RngBegin
  \/ RngStep
  \/ RngSize
  \/ RngEmpty
  \/ RngDestroy

SpecRange == Init /\ [][RngNext]_<<vars, others>>

\* The integers a, a + 1, ..., b - 1.
Interval(a, b) == [i \in 1 .. (b - a) |-> a + i - 1]

\* What C23 says of everything but size (): *begin () == from, *end () == to,
\* a traversal yields from, from + 1, ... in order and ends at to, empty ()
\* holds exactly when from == to, and range (to) is range (0, to).
RangeIteratesInterval ==
  /\ rng.alive => rng.begin_ = rng.from /\ rng.end_ = rng.to
  /\ rng.iter =>
       /\ rng.it_ \in rng.from .. rng.to
       /\ rng.out = Interval(rng.from, rng.it_)
  /\ rng.last.op = "empty" => (rng.last.ret = 1 <=> rng.from = rng.to)
  /\ rng.last.op = "range_to" => rng.begin_ = 0 /\ rng.end_ = rng.to

\* C23 as stated: for from <= to, range (from, to) iterates exactly from,
\* from + 1, ..., to - 1, *begin () == from, *end () == to, size () is
\* to - from, empty () holds exactly when from == to, and range (to) equals
\* range (0, to).
C23_IntegerRange ==
  /\ RangeIteratesInterval
  /\ rng.last.op = "size" => rng.last.ret = rng.to - rng.from

\* What does hold: everything but the size, and the size when to - from is a
\* value of Int.
C23_SizeWhenRepresentable ==
  /\ RangeIteratesInterval
  /\ rng.last.op = "size" /\ rng.to - rng.from \in RangeInts =>
       rng.last.ret = rng.to - rng.from /\ ~ rng.ub

====
